---- MODULE Spec2Model ----
(***************************************************************************)
(* The object and method-dispatch core of goruby (package object):         *)
(* values and their Class(), class chains with method tables, eigenclass   *)
(* extension of single objects, the Kernel method set and its builtins,    *)
(* and Function.Call.                                                       *)
(***************************************************************************)
EXTENDS Integers, Sequences, FiniteSets, TLC

VARIABLES
    classMethods,   \* method table of every user-mutable class
    eigen,          \* the eigenclasses allocated so far, in allocation order
    wrapper,        \* per object: 0, or the index in eigen of the eigenclass its extendedObject holds
    added,          \* per object: the method names added to it so far (history)
    defined,        \* per class: the table its own definitions alone produce (history)
    ndefs,          \* number of definitions made so far (bounded)
    last            \* the outcome of the latest call, until the next definition

vars == <<classMethods, eigen, wrapper, added, defined, ndefs, last>>

---------------------------------------------------------------------------
\* Bounds of the model

\* Total number of method definitions (on classes and on objects) in a run.
MaxDefs == 2

\* Longest argument list passed to a call.
MaxArgs == 2

---------------------------------------------------------------------------
\* Values

StringV(s) == [go |-> "String", s |-> s]
IntegerV(n) == [go |-> "Integer", n |-> n]
NIL == [go |-> "Nil"]
FALSE_OBJ == [go |-> "Boolean", b |-> FALSE]
SymbolV(s) == [go |-> "Symbol", s |-> s]
ArrayV(elems) == [go |-> "Array", elems |-> elems]
ObjectV(o) == [go |-> "Object", id |-> o]
ClassObjectV(ref) == [go |-> "Class", ref |-> ref]
\* The Go nil returned in place of a value beside an error.
GoNil == [go |-> "nil"]

Builtin == [go |-> "Builtin"]
ReturnValue(v) == [go |-> "ReturnValue", Value |-> v]
RequireStatement(name) == [go |-> "RequireStatement", Name |-> name]
\* Parameters is the number of parameters, Body names the definition the body belongs to.
Function(nparams, vis, body) ==
    [go |-> "Function", Parameters |-> nparams, MethodVisibility |-> vis, Body |-> body]
Self(v) == [go |-> "Self", RubyObject |-> v]
extendedObject(v, e) == [go |-> "extendedObject", RubyObject |-> v, class |-> e]

---------------------------------------------------------------------------
\* Classes

ClassRef(n) == [eigen |-> FALSE, name |-> n, id |-> 0]
EigenRef(i) == [eigen |-> TRUE, name |-> "eigenclass", id |-> i]
\* The nil RubyClass.
NoClass == [eigen |-> FALSE, name |-> "nil", id |-> 0]

Objects == {"O1", "O2"}
\* Both objects are instances of the same class.
OriginalClass(o) == ClassRef("Foo")
\* Classes whose method tables definitions may change, most specific first.
UserClasses == {"Foo", "Object"}

PUBLIC_METHOD == "public"
PRIVATE_METHOD == "private"

EmptyTable == [n \in {} |-> n]
\* map[name] = method
Put(table, name, method) == (name :> method) @@ table

publicMethod(fn) == [go |-> "native", fn |-> fn, fixed |-> FALSE, arity |-> 0, vis |-> PUBLIC_METHOD]
privateMethod(fn) == [go |-> "native", fn |-> fn, fixed |-> FALSE, arity |-> 0, vis |-> PRIVATE_METHOD]
withArity(n, m) == [m EXCEPT !.fixed = TRUE, !.arity = n]

\* Faulty variant: puts registered with publicMethod.
kernelMethodSetPutsPublic ==
    ("nil?" :> withArity(0, publicMethod("kernelIsNil"))) @@
    ("methods" :> withArity(0, publicMethod("kernelMethods"))) @@
    ("class" :> withArity(0, publicMethod("kernelClass"))) @@
    ("puts" :> publicMethod("kernelPuts")) @@
    ("require" :> withArity(1, privateMethod("kernelRequire")))

kernelMethodSet ==
    ("nil?" :> withArity(0, publicMethod("kernelIsNil"))) @@
    ("methods" :> withArity(0, publicMethod("kernelMethods"))) @@
    ("class" :> withArity(0, publicMethod("kernelClass"))) @@
    ("puts" :> privateMethod("kernelPuts")) @@
    ("require" :> withArity(1, privateMethod("kernelRequire")))

\* RubyMethod.Visibility()
Visibility(m) == IF m.go = "Function" THEN m.MethodVisibility ELSE m.vis

\* Class() of the variants whose definition is outside the shown files.
NominalClass(v) ==
    IF v.go = "Object" THEN OriginalClass(v.id) ELSE ClassRef(v.go)

RECURSIVE Class(_)
\* Faulty variant: a RequireStatement answers with the class of the name it carries.
ClassOfRequiredName(v) ==
    CASE v.go = "Builtin" -> NoClass
      [] v.go = "ReturnValue" -> Class(v.Value)
      [] v.go = "RequireStatement" -> Class(v.Name)
      [] v.go = "Function" -> NoClass
      [] v.go = "Self" -> Class(v.RubyObject)
      [] v.go = "extendedObject" -> EigenRef(v.class)
      [] OTHER -> NominalClass(v)

Class(v) ==
    CASE v.go = "Builtin" -> NoClass
      [] v.go = "ReturnValue" -> Class(v.Value)
      [] v.go = "RequireStatement" -> NoClass
      [] v.go = "Function" -> NoClass
      [] v.go = "Self" -> Class(v.RubyObject)
      [] v.go = "extendedObject" -> EigenRef(v.class)
      [] OTHER -> NominalClass(v)

\* RubyClass.SuperClass()
SuperClass(c) ==
    IF c.eigen THEN eigen[c.id].wrappedClass
    ELSE CASE c.name = "Foo" -> ClassRef("Object")
           [] c.name = "Object" -> ClassRef("Kernel")
           [] c.name = "Kernel" -> NoClass
           [] OTHER -> ClassRef("Object")

\* RubyClass.Methods()
Methods(c) ==
    IF c.eigen THEN eigen[c.id].methods
    ELSE IF c.name = "Kernel" THEN kernelMethodSet
    ELSE IF c.name \in UserClasses THEN classMethods[c.name]
    ELSE EmptyTable

\* eigenclass.Class(): the class the eigenclass wraps
EigenclassClass(c) == eigen[c.id].wrappedClass

\* The resolution chain from class c, most specific first.
RECURSIVE Chain(_)
Chain(c) == IF c = NoClass THEN <<>> ELSE <<c>> \o Chain(SuperClass(c))

\* The value the program currently holds for object o.
Current(o) ==
    IF wrapper[o] = 0 THEN ObjectV(o) ELSE extendedObject(ObjectV(o), wrapper[o])

---------------------------------------------------------------------------
\* Call outcomes

NoError == [kind |-> "none", expected |-> 0, got |-> 0]
NoMethodError == [kind |-> "NoMethodError", expected |-> 0, got |-> 0]
NewWrongNumberOfArgumentsError(expected, got) ==
    [kind |-> "WrongNumberOfArgumentsError", expected |-> expected, got |-> got]
NewImplicitConversionTypeError ==
    [kind |-> "ImplicitConversionTypeError", expected |-> 0, got |-> 0]
EvalError == [kind |-> "EvalError", expected |-> 0, got |-> 0]

\* What one method call produced: the returned pair (value, err), or a panic,
\* and what the call did on the way.
Outcome(status, value, err, body, envs, evals, lines) ==
    [status |-> status, value |-> value, err |-> err, body |-> body,
     envs |-> envs, evals |-> evals, lines |-> lines]
Returned(v, body) == Outcome("value", v, NoError, body, 0, 0, 0)
Failed(e, body) == Outcome("error", GoNil, e, body, 0, 0, 0)
Panicked(body) == Outcome("panic", GoNil, NoError, body, 0, 0, 0)

NoCall ==
    [via |-> "none", recv |-> GoNil, name |-> "", args |-> <<>>, internal |-> FALSE,
     method |-> GoNil, at |-> NoClass, out |-> Failed(NoError, "")]

---------------------------------------------------------------------------
\* Kernel builtins.  Each yields the set of outcomes the call can have.

\* One line is written (lines = 1), whatever the arguments, and NIL returned.
kernelPuts(receiver, args) ==
    {Outcome("value", NIL, NoError, "kernelPuts", 0, 0, 1)}

\* All orders in which a Go map range can visit the keys S.
RECURSIVE Orders(_)
Orders(S) ==
    IF S = {} THEN {<<>>}
    ELSE UNION {{<<x>> \o rest : rest \in Orders(S \ {x})} : x \in S}

\* Faulty variant: the visibility test of the loop is missing.
AllNames(c) == DOMAIN Methods(c)

PublicNames(c) ==
    {meth \in DOMAIN Methods(c) : Visibility(Methods(c)[meth]) = PUBLIC_METHOD}

\* The contents methodSymbols can have after the loop started at class.
RECURSIVE methodSymbols(_)
methodSymbols(class) ==
    IF class = NoClass THEN {<<>>}
    ELSE {level \o rest : level \in Orders(PublicNames(class)),
                          rest \in methodSymbols(SuperClass(class))}

kernelMethods(receiver, args) ==
    {Returned(ArrayV([i \in 1..Len(names) |-> SymbolV(names[i])]), "kernelMethods") :
        names \in methodSymbols(Class(receiver))}

kernelIsNil(receiver, args) == {Returned(FALSE_OBJ, "kernelIsNil")}

\* class.(RubyClassObject): every class and eigenclass is a class object, the
\* nil interface is not and makes the assertion panic.
IsRubyClassObject(class) == class # NoClass

\* Faulty variant: the eigenclass is not unwrapped.
kernelClassNoUnwrap(receiver, args) ==
    LET class == Class(receiver)
    IN  IF IsRubyClassObject(class)
        THEN {Returned(ClassObjectV(class), "kernelClass")}
        ELSE {Panicked("kernelClass")}

kernelClass(receiver, args) ==
    LET class == Class(receiver)
        unwrapped == IF class.eigen THEN EigenclassClass(class) ELSE class
    IN  IF IsRubyClassObject(unwrapped)
        THEN {Returned(ClassObjectV(unwrapped), "kernelClass")}
        ELSE {Panicked("kernelClass")}

\* Faulty variant: the argument's variant is not checked.
kernelRequireUnchecked(receiver, args) ==
    IF Len(args) # 1
    THEN {Failed(NewWrongNumberOfArgumentsError(1, Len(args)), "kernelRequire")}
    ELSE {Returned(RequireStatement(args[1]), "kernelRequire")}

kernelRequire(receiver, args) ==
    IF Len(args) # 1
    THEN {Failed(NewWrongNumberOfArgumentsError(1, Len(args)), "kernelRequire")}
    ELSE IF args[1].go # "String"
    THEN {Failed(NewImplicitConversionTypeError, "kernelRequire")}
    ELSE {Returned(RequireStatement(args[1]), "kernelRequire")}

NativeBody(fn, receiver, args) ==
    CASE fn = "kernelPuts" -> kernelPuts(receiver, args)
      [] fn = "kernelMethods" -> kernelMethods(receiver, args)
      [] fn = "kernelIsNil" -> kernelIsNil(receiver, args)
      [] fn = "kernelClass" -> kernelClass(receiver, args)
      [] fn = "kernelRequire" -> kernelRequire(receiver, args)

\* Call of a native method built by withArity / publicMethod / privateMethod.
NativeCall(m, receiver, args) ==
    IF m.fixed /\ Len(args) # m.arity
    THEN {Failed(NewWrongNumberOfArgumentsError(m.arity, Len(args)), "")}
    ELSE NativeBody(m.fn, receiver, args)

---------------------------------------------------------------------------
\* Function.Call

\* What the evaluator's Eval callback can hand back: (value, nil) or (nil, err).
EvalResults ==
    {[err |-> FALSE, value |-> IntegerV(1)],
     [err |-> FALSE, value |-> ReturnValue(StringV("foo"))],
     [err |-> TRUE, value |-> GoNil]}

unwrapReturnValue(obj) == IF obj.go = "ReturnValue" THEN obj.Value ELSE obj

\* Faulty variant: the body is evaluated whatever the number of arguments.
FunctionCallUnchecked(f, receiver, args) ==
    {IF r.err
     THEN Outcome("error", GoNil, EvalError, f.Body, 1, 1, 0)
     ELSE Outcome("value", unwrapReturnValue(r.value), NoError, f.Body, 1, 1, 0) :
     r \in EvalResults}

FunctionCall(f, receiver, args) ==
    IF Len(args) # f.Parameters
    THEN {Failed(NewWrongNumberOfArgumentsError(f.Parameters, Len(args)), "")}
    ELSE {IF r.err
          THEN Outcome("error", GoNil, EvalError, f.Body, 1, 1, 0)
          ELSE Outcome("value", unwrapReturnValue(r.value), NoError, f.Body, 1, 1, 0) :
          r \in EvalResults}

\* RubyMethod.Call
Call(m, receiver, args) ==
    IF m.go = "Function" THEN FunctionCall(m, receiver, args)
    ELSE NativeCall(m, receiver, args)

---------------------------------------------------------------------------
\* Dispatcher

NotFound == [found |-> FALSE, method |-> GoNil, class |-> NoClass]

\* Faulty variant: the least specific level that holds the name wins.
RECURSIVE ResolveLastHit(_, _)
ResolveLastHit(class, name) ==
    IF class = NoClass THEN NotFound
    ELSE LET deeper == ResolveLastHit(SuperClass(class), name)
         IN  IF deeper.found THEN deeper
             ELSE IF name \in DOMAIN Methods(class)
             THEN [found |-> TRUE, method |-> Methods(class)[name], class |-> class]
             ELSE NotFound

RECURSIVE Resolve(_, _)
Resolve(class, name) ==
    IF class = NoClass THEN NotFound
    ELSE IF name \in DOMAIN Methods(class)
    THEN [found |-> TRUE, method |-> Methods(class)[name], class |-> class]
    ELSE Resolve(SuperClass(class), name)

Send(receiver, name, args, internal) ==
    LET r == Resolve(Class(receiver), name)
    IN  IF ~r.found THEN {Failed(NoMethodError, "")}
        ELSE IF Visibility(r.method) = PRIVATE_METHOD /\ ~internal
        THEN {Failed(NoMethodError, "")}
        ELSE Call(r.method, receiver, args)

---------------------------------------------------------------------------
\* Extension of a single object

newEigenclass(owner, wrappedClass, methods) ==
    [owner |-> owner, wrappedClass |-> wrappedClass, methods |-> methods]

\* eigenclass.addMethod on the heap h = [eigen, classMethods]
EigenclassAddMethod(h, e, name, method) ==
    [h EXCEPT !.eigen[e].methods = Put(@, name, method)]

\* Faulty variant: the addition replaces the eigenclass's table.
ExtendedObjectAddMethodReplacing(h, e, name, method) ==
    [h EXCEPT !.eigen[e].methods = (name :> method)]

\* Faulty variant: the addition also lands in the table of the embedded object's class.
ExtendedObjectAddMethodOnClass(h, e, name, method) ==
    [EigenclassAddMethod(h, e, name, method)
        EXCEPT !.classMethods[h.eigen[e].wrappedClass.name] = Put(@, name, method)]

\* extendedObject.addMethod on the heap h
ExtendedObjectAddMethod(h, e, name, method) ==
    EigenclassAddMethod(h, e, name, method)

Heap == [eigen |-> eigen, classMethods |-> classMethods]

---------------------------------------------------------------------------
\* Inputs

Names == {"nil?", "methods", "class", "puts", "require", "m1"}
UserNames == {"m1", "nil?"}
\* The functions a definition at `site` (a class or an object) can install.
FunctionVariants(site) ==
    {Function(0, PUBLIC_METHOD, site), Function(1, PUBLIC_METHOD, site),
     Function(0, PRIVATE_METHOD, site)}
\* Argument lists: the first argument of either kind, then fillers.
ArgValues == {StringV("foo"), IntegerV(1)}
ListsOver(values) ==
    {<<>>} \cup {[i \in 1..n |-> IF i = 1 THEN v ELSE StringV("filler")] :
                    v \in values, n \in 1..MaxArgs}
ArgLists == ListsOver(ArgValues)
DirectArgLists == ListsOver(ArgValues \cup {StringV("bar")})

---------------------------------------------------------------------------
\* Actions

Init ==
    /\ classMethods = [c \in UserClasses |-> EmptyTable]
    /\ eigen = <<>>
    /\ wrapper = [o \in Objects |-> 0]
    /\ added = [o \in Objects |-> {}]
    /\ defined = [c \in UserClasses |-> EmptyTable]
    /\ ndefs = 0
    /\ last = NoCall

\* A method definition on a class of the chain.
DefineMethod(c, name, method) ==
    /\ last.via = "none"
    /\ ndefs < MaxDefs
    /\ classMethods' = [classMethods EXCEPT ![c] = Put(@, name, method)]
    /\ defined' = [defined EXCEPT ![c] = Put(@, name, method)]
    /\ ndefs' = ndefs + 1
    /\ last' = NoCall
    /\ UNCHANGED <<eigen, wrapper, added>>

\* AddMethod(context, methodName, method): extends the one object o.
AddMethod(o, name, method) ==
    /\ last.via = "none"
    /\ ndefs < MaxDefs
    /\ LET fresh == wrapper[o] = 0
           e == IF fresh THEN Len(eigen) + 1 ELSE wrapper[o]
           h0 == IF fresh
                 THEN [Heap EXCEPT !.eigen = Append(eigen, newEigenclass(o, Class(Current(o)), EmptyTable))]
                 ELSE Heap
           h1 == ExtendedObjectAddMethod(h0, e, name, method)
       IN  /\ eigen' = h1.eigen
           /\ classMethods' = h1.classMethods
           /\ wrapper' = [wrapper EXCEPT ![o] = e]
    /\ added' = [added EXCEPT ![o] = @ \cup {name}]
    /\ ndefs' = ndefs + 1
    /\ UNCHANGED defined
    /\ last' = NoCall

\* invoke(receiver, name, args, isInternalCall) on the current value of o.
Invoke(o, name, args, internal) ==
    LET receiver == IF internal THEN Self(Current(o)) ELSE Current(o)
        r == Resolve(Class(receiver), name)
    IN  /\ last.via = "none"
        /\ \E out \in Send(receiver, name, args, internal) :
              last' = [via |-> "invoke", recv |-> receiver, name |-> name, args |-> args,
                       internal |-> internal, method |-> r.method, at |-> r.class, out |-> out]
        /\ UNCHANGED <<classMethods, eigen, wrapper, added, defined, ndefs>>

\* A direct call of a Kernel method set entry with an arbitrary call context.
CallKernel(name, receiver, args) ==
    /\ last.via = "none"
    /\ \E out \in Call(kernelMethodSet[name], receiver, args) :
          last' = [via |-> "direct", recv |-> receiver, name |-> name, args |-> args,
                   internal |-> FALSE, method |-> kernelMethodSet[name],
                   at |-> ClassRef("Kernel"), out |-> out]
    /\ UNCHANGED <<classMethods, eigen, wrapper, added, defined, ndefs>>

\* A direct f.Call(context, args...)
CallFunction(f, receiver, args) ==
    /\ last.via = "none"
    /\ \E out \in FunctionCall(f, receiver, args) :
          last' = [via |-> "direct", recv |-> receiver, name |-> "Function.Call", args |-> args,
                   internal |-> FALSE, method |-> f, at |-> NoClass, out |-> out]
    /\ UNCHANGED <<classMethods, eigen, wrapper, added, defined, ndefs>>

\* The caller takes the result; the next operation starts.
Return ==
    /\ last.via # "none"
    /\ last' = NoCall
    /\ UNCHANGED <<classMethods, eigen, wrapper, added, defined, ndefs>>

Next ==
    \/ \E c \in UserClasses, name \in UserNames : \E f \in FunctionVariants(c) : DefineMethod(c, name, f)
    \/ \E o \in Objects, name \in UserNames : \E f \in FunctionVariants(o) : AddMethod(o, name, f)
    \/ \E o \in Objects, name \in Names, args \in ArgLists, internal \in BOOLEAN :
          Invoke(o, name, args, internal)
    \/ Return

Spec == Init /\ [][Next]_vars

\* The receivers a call context can carry: the objects, as they are or as self,
\* and the values whose Class() is nil.
Receivers ==
    {Current(o) : o \in Objects} \cup {Self(Current(o)) : o \in Objects}
    \cup {Function(0, PUBLIC_METHOD, "f"), Builtin, RequireStatement(StringV("foo")),
          ReturnValue(Function(0, PUBLIC_METHOD, "f")), ReturnValue(ObjectV("O1"))}

KernelNext ==
    \/ \E o \in Objects, name \in UserNames : \E f \in FunctionVariants(o) : AddMethod(o, name, f)
    \/ \E name \in DOMAIN kernelMethodSet, receiver \in Receivers, args \in DirectArgLists :
          CallKernel(name, receiver, args)
    \/ \E f \in FunctionVariants("direct"), receiver \in Receivers, args \in DirectArgLists :
          CallFunction(f, receiver, args)
    \/ Return

KernelSpec == Init /\ [][KernelNext]_vars

---------------------------------------------------------------------------
\* Notions the properties are stated in

\* The object a receiver stands for, under its Self and extendedObject wrappers.
RECURSIVE ObjectOf(_)
ObjectOf(v) ==
    IF v.go \in {"Self", "extendedObject"} THEN ObjectOf(v.RubyObject) ELSE v.id

Invoked == last.via = "invoke"

\* The resolution chain of the receiver of the latest call.
LastChain == Chain(Class(last.recv))
\* The levels of that chain whose table holds the called name.
DefiningLevels == {i \in 1..Len(LastChain) : last.name \in DOMAIN Methods(LastChain[i])}
FirstLevel == CHOOSE i \in DefiningLevels : \A j \in DefiningLevels : i <= j
FirstMethod == Methods(LastChain[FirstLevel])[last.name]
\* The body a method runs.
BodyOf(m) == IF m.go = "Function" THEN m.Body ELSE m.fn
\* The fixed arity of a method, if it has one.
HasArity(m) == IF m.go = "Function" THEN TRUE ELSE m.fixed
ArityOf(m) == IF m.go = "Function" THEN m.Parameters ELSE m.arity
BodyNotRun(out) == out.body = "" /\ out.envs = 0 /\ out.evals = 0 /\ out.lines = 0

\* C1: a name on no table of the receiver's chain fails with NoMethodError; a
\* name defined on the chain runs the implementation of the first (most
\* specific) level that defines it, and of no other level.
LookupFirstHitWins ==
    Invoked =>
        LET chain == LastChain
            levels == {i \in 1..Len(chain) : last.name \in DOMAIN Methods(chain[i])}
            first == CHOOSE i \in levels : \A j \in levels : i <= j
            m == Methods(chain[first])[last.name]
        IN  IF levels = {}
            THEN /\ last.out.status = "error"
                 /\ last.out.err = NoMethodError
                 /\ BodyNotRun(last.out)
            ELSE /\ last.at = chain[first]
                 /\ last.out.body \in {"", BodyOf(m)}
                 /\ (/\ Visibility(m) = PUBLIC_METHOD \/ last.internal
                     /\ HasArity(m) => Len(last.args) = ArityOf(m))
                    => /\ last.out.body = BodyOf(m)
                       /\ last.out.err.kind \notin {"NoMethodError", "WrongNumberOfArgumentsError"}

\* A name defined on two levels was invoked and the more specific one ran.
LookupShadowWitness ==
    /\ Invoked
    /\ Cardinality(DefiningLevels) >= 2
    /\ last.out.status = "value"
    /\ last.out.body = BodyOf(FirstMethod)
    /\ \E i \in DefiningLevels : BodyOf(Methods(LastChain[i])[last.name]) # last.out.body

\* C2: puts and require are refused with NoMethodError, unrun, at an external
\* call site and dispatched at an internal one; nil?, methods and class are
\* invocable from both.
VisibilityEnforced ==
    (Invoked /\ last.at = ClassRef("Kernel")) =>
        /\ (last.name \in {"puts", "require"} /\ ~last.internal) =>
              /\ last.out.status = "error"
              /\ last.out.err = NoMethodError
              /\ BodyNotRun(last.out)
        /\ (last.name = "puts" /\ last.internal) =>
              last.out.status = "value" /\ last.out.value = NIL /\ last.out.lines = 1
        /\ (last.name = "require" /\ last.internal) =>
              /\ last.out.err.kind # "NoMethodError"
              /\ (Len(last.args) = 1 /\ last.args[1].go = "String") => last.out.status = "value"
        /\ (last.name \in {"nil?", "methods", "class"} /\ last.args = <<>>) =>
              last.out.status = "value"

PrivateRefusedWitness ==
    /\ Invoked
    /\ last.name = "puts"
    /\ ~last.internal
    /\ last.out.err = NoMethodError

\* C3: a call whose argument count differs from the method's fixed arity
\* returns WrongNumberOfArgumentsError{arity, count} and runs nothing of the
\* body: no environment is extended, Eval is not called; nil? with N >= 1
\* arguments gives {0, N}.
ArityCheckedBeforeBody ==
    /\ (/\ Invoked
        /\ last.method # GoNil
        /\ Visibility(last.method) = PUBLIC_METHOD \/ last.internal
        /\ HasArity(last.method)
        /\ Len(last.args) # ArityOf(last.method))
       => /\ last.out.status = "error"
          /\ last.out.value = GoNil
          /\ last.out.err = NewWrongNumberOfArgumentsError(ArityOf(last.method), Len(last.args))
          /\ BodyNotRun(last.out)
    /\ (Invoked /\ last.name = "nil?" /\ last.at = ClassRef("Kernel") /\ Len(last.args) >= 1)
       => /\ last.out.err = NewWrongNumberOfArgumentsError(0, Len(last.args))
          /\ BodyNotRun(last.out)

\* An interpreted Function was called with too many or too few arguments.
ArityMismatchWitness ==
    /\ Invoked
    /\ last.method.go = "Function"
    /\ Len(last.args) # last.method.Parameters
    /\ last.out.err.kind = "WrongNumberOfArgumentsError"

\* The eigenclasses allocated for object o.
EigenclassesOf(o) == {i \in 1..Len(eigen) : eigen[i].owner = o}

\* C4: an object that had methods added has exactly one eigenclass, whose
\* superclass is the object's original class (never an eigenclass), and every
\* method added so far is found on that eigenclass and callable.
SingleEigenclass ==
    /\ \A o \in Objects :
          IF added[o] = {}
          THEN wrapper[o] = 0 /\ EigenclassesOf(o) = {}
          ELSE /\ EigenclassesOf(o) = {wrapper[o]}
               /\ SuperClass(EigenRef(wrapper[o])) = OriginalClass(o)
               /\ ~SuperClass(EigenRef(wrapper[o])).eigen
               /\ \A n \in added[o] :
                     /\ n \in DOMAIN eigen[wrapper[o]].methods
                     /\ Resolve(Class(Current(o)), n).class = EigenRef(wrapper[o])
    /\ (Invoked /\ last.name \in added[ObjectOf(last.recv)] /\ last.internal)
          => last.out.err.kind # "NoMethodError"

\* Some object was extended with two different method names.
TwoAdditionsWitness == \E o \in Objects : Cardinality(added[o]) >= 2

\* C5: additions to an object leave every class table as the class's own
\* definitions made it, and a call on another object of the same class resolves
\* through that object's own chain: NoMethodError unless defined there.
ExtensionIsolated ==
    /\ classMethods = defined
    /\ Invoked =>
          LET o2 == ObjectOf(last.recv)
              own == added[o2] \cup UNION {DOMAIN defined[c] : c \in UserClasses}
                        \cup DOMAIN kernelMethodSet
          IN  last.name \notin own =>
                 last.out.status = "error" /\ last.out.err = NoMethodError

\* m was added to one object and then called on the other, where it is unknown.
OtherObjectWitness ==
    /\ Invoked
    /\ \E o \in Objects \ {ObjectOf(last.recv)} : last.name \in added[o]
    /\ last.name \notin added[ObjectOf(last.recv)]
    /\ last.out.err = NoMethodError

\* C6: class returns the receiver's original class object, also for a
\* receiver that was extended.
ClassReturnsOriginal ==
    (Invoked /\ last.name = "class" /\ last.at = ClassRef("Kernel") /\ last.args = <<>>) =>
        /\ last.out.status = "value"
        /\ last.out.value = ClassObjectV(OriginalClass(ObjectOf(last.recv)))

ClassOfExtendedWitness ==
    /\ Invoked
    /\ last.name = "class"
    /\ wrapper[ObjectOf(last.recv)] # 0
    /\ Cardinality(added[ObjectOf(last.recv)]) >= 2
    /\ last.out.status = "value"

\* C7: require with one String returns a RequireStatement carrying that
\* String and no error; with one argument of another variant it returns
\* ImplicitConversionTypeError and no value.
RequireRoundTrip ==
    (last.via = "direct" /\ last.name = "require" /\ Len(last.args) = 1) =>
        IF last.args[1].go = "String"
        THEN /\ last.out.status = "value"
             /\ last.out.err = NoError
             /\ last.out.value.go = "RequireStatement"
             /\ last.out.value.Name = last.args[1]
        ELSE /\ last.out.status = "error"
             /\ last.out.err.kind = "ImplicitConversionTypeError"
             /\ last.out.value = GoNil

RequireTextWitness ==
    /\ last.via = "direct"
    /\ last.name = "require"
    /\ last.out.status = "value"
    /\ last.out.value = RequireStatement(StringV("bar"))

\* The public names of a level of the chain.
LevelPublic(class) ==
    {n \in DOMAIN Methods(class) : Visibility(Methods(class)[n]) = PUBLIC_METHOD}
\* The number of entries the levels before level i of the chain contribute.
RECURSIVE EntriesBefore(_, _)
EntriesBefore(chain, i) ==
    IF i = 1 THEN 0
    ELSE EntriesBefore(chain, i - 1) + Cardinality(LevelPublic(chain[i - 1]))

\* C8: methods() returns symbols, level after level from the receiver's
\* effective class to the end of the chain: each level contributes one entry
\* for each of its public methods and none for a private one, so a name public
\* on k levels is listed k times.
MethodsListsPublicPerLevel ==
    (Invoked /\ last.name = "methods" /\ last.at = ClassRef("Kernel") /\ last.args = <<>>) =>
        /\ last.out.status = "value"
        /\ last.out.value.go = "Array"
        /\ LET elems == last.out.value.elems
               chain == LastChain
           IN  /\ \A k \in 1..Len(elems) : elems[k].go = "Symbol"
               /\ Len(elems) = EntriesBefore(chain, Len(chain) + 1)
               /\ \A i \in 1..Len(chain) :
                     {elems[k].s : k \in (EntriesBefore(chain, i) + 1)..EntriesBefore(chain, i + 1)}
                        = LevelPublic(chain[i])

\* methods() on an extended receiver whose chain holds a name public on two
\* levels and a private method of a user level.
MethodsWitness ==
    /\ Invoked
    /\ last.name = "methods"
    /\ last.out.status = "value"
    /\ LastChain[1].eigen
    /\ \E n \in UserNames :
          Cardinality({i \in 1..Len(LastChain) : n \in LevelPublic(LastChain[i])}) >= 2
    /\ \E i \in 1..Len(LastChain) : \E n \in UserNames :
          /\ n \in DOMAIN Methods(LastChain[i])
          /\ Methods(LastChain[i])[n].go = "Function"
          /\ n \notin LevelPublic(LastChain[i])

\* The values the latest call received and returned.
Observed ==
    {v \in {last.recv, last.out.value} \cup {last.args[i] : i \in 1..Len(last.args)} :
        v.go # "nil"}
\* A value under its ReturnValue and Self wrappers.
RECURSIVE Bare(_)
Bare(v) ==
    CASE v.go = "ReturnValue" -> Bare(v.Value)
      [] v.go = "Self" -> Bare(v.RubyObject)
      [] OTHER -> v

\* C9 as stated: only Builtin and ReturnValue lack a class, and no value
\* returned by a call does.
OnlyWrappersLackClass ==
    /\ \A v \in Observed : v.go \notin {"Builtin", "ReturnValue"} => Class(v) # NoClass
    /\ last.out.status = "value" => Class(last.out.value) # NoClass

\* C9, amended: Class() is nil exactly for Builtin, RequireStatement and
\* Function (and for a wrapper around one of them: ReturnValue answers with the
\* class of the value it wraps); the RequireStatement require returns has none.
NilClassVariants ==
    /\ \A v \in Observed :
          Class(v) = NoClass <=> Bare(v).go \in {"Builtin", "RequireStatement", "Function"}
    /\ (last.name = "require" /\ last.out.status = "value") => Class(last.out.value) = NoClass

RequireStatementReturnedWitness ==
    /\ last.name = "require"
    /\ last.out.status = "value"
    /\ last.out.value.go = "RequireStatement"
    /\ Class(last.out.value) = NoClass

\* C10: every call of a Kernel builtin or of Function.Call returns a value or
\* an error; none panics.
NoCallPanics == last.out.status # "panic"

====
